---- MODULE Spec2Model ----
(***************************************************************************)
(* Model of src/bedrock/bedrock_chatbot.py: a Streamlit chat page.  The    *)
(* script main() is re-run from top to bottom on every UI event; the       *)
(* session state (messages, langchain_messages, file_uploader_key) and the *)
(* widget state (uploaded files, sliders) survive from run to run.  A run  *)
(* blocks inside generate_response while the backend streams tokens; an    *)
(* event that arrives meanwhile is delivered at the next Streamlit command *)
(* of the running script (the token callback) or when the run ends.        *)
(***************************************************************************)
EXTENDS Integers, Sequences, FiniteSets, TLC

VARIABLES
    messages,            \* st.session_state.messages
    langchain_messages,  \* st.session_state["langchain_messages"]
    file_uploader_key,   \* st.session_state["file_uploader_key"]
    uploaded_files,      \* files held by the st.file_uploader widget
    model_name,          \* st.session_state["model_name"], the "Model" selectbox
    system_prompt,       \* value of the "System Prompt" text area
    sliders,             \* values of the Temperature, Top-P, Top-K and Max Token sliders
    memory_window,       \* value of the "Memory Window" slider
    model_kwargs,        \* the inference parameters render_sidebar returned to the last run
    pc,                  \* "idle": no run in progress; "invoking": a run is inside generate_response
    formatted_prompt,    \* local of the run in progress (main, lines 364/373)
    text,                \* StreamHandler.text of the run in progress
    container,           \* what the st.empty() placeholder of the run in progress shows
    renders,             \* history: container.markdown calls of the run in progress
    arrived,             \* history: the tokens the backend has streamed to the run
                         \* in progress, in arrival order
    rerun_requested,     \* "New Chat" was clicked while the run in progress was blocked
    lastOp,              \* history: "start", "event", "submit" (a prompt was submitted),
                         \* "format" (FormatMemory), or the reset the last step was:
                         \* "new_chat", "new_chat_deferred" (clicked during a run)
    invocations,         \* history: model invocations started since the last reset
    responses            \* history: assistant responses appended since the last reset

vars == <<messages, langchain_messages, file_uploader_key, uploaded_files,
          model_name, system_prompt, sliders, memory_window, model_kwargs,
          pc, formatted_prompt, text, container, renders, arrived, rerun_requested,
          lastOp, invocations, responses>>

----------------------------------------------------------------------------
(* Bounds of the model *)

\* at most this many files live (in the widget or referenced by a message)
MaxFiles == 2
\* a prompt is accepted only while the log is shorter than this
MaxMessages == 3
\* tokens streamed by one invocation
MaxStream == 1
\* entries of a memory log handed to langchain_messages_format
MaxLog == 3
\* tokens of one response, and messages of the log, in sessions that stream
\* responses of several tokens
MaxBuffer == 3
MaxStreamMessages == 4
\* messages of the log in sessions that move the Memory Window slider
MaxWindowMessages == 6

\* upper end of random.randint(1, 100) in new_chat
RandintMax == 100

\* the keys new_chat draws in the runs of Spec: two of the 1..RandintMax it
\* draws from (SpecKeys has them all); the script only compares keys
SomeKeys == {1, 2}

Prompts == {"Hello", "describe these"}
Tokens == {"tok"}
StreamTokens == {"Hel", "lo"}
None == "None"

\* what the user types into the "System Prompt" text area, and where the user
\* leaves a slider (temperatures in tenths, top-p in hundredths)
SystemPrompts == {"", "Be brief.", "Answer in French."}
SliderValues ==
    [temperature |-> {0, 10}, top_p |-> {50, 100},
     top_k |-> {1, 250}, max_tokens |-> {1024, 4096}]
MemoryWindows == {0, 1, 10}

----------------------------------------------------------------------------
(* Data *)

INIT_MESSAGE ==
    [role |-> "assistant",
     content |-> "Hi! I'm your AI Bot on Bedrock. How may I help you?"]

\* an uploaded file: its widget identifier and whether PIL can open it
UploadedFile(id, ok) == [file_id |-> id, decodable |-> ok]

\* ChatModel.format_prompt (models.py): the text as one text block
format_prompt(prompt) == << [type |-> "text", text |-> prompt] >>

\* langchain message constructors; content is a str or a list
StrContent(s) == [kind |-> "str", val |-> s]
ListContent(l) == [kind |-> "list", items |-> l]
HumanMessage(c) == [type |-> "human", content |-> c]
AIMessage(c) == [type |-> "ai", content |-> c]

Last(s) == s[Len(s)]

RECURSIVE Flatten(_)
Flatten(ss) == IF ss = <<>> THEN <<>> ELSE Head(ss) \o Flatten(Tail(ss))

Range(s) == {s[i] : i \in 1..Len(s)}

----------------------------------------------------------------------------
(* Functions of the script *)

\* main, lines 346-353: the identifiers recorded by earlier user messages
message_images_list(msgs) ==
    Flatten([i \in 1..Len(msgs) |->
               IF /\ msgs[i].role = "user"
                  /\ "images" \in DOMAIN msgs[i]
                  /\ msgs[i].images # <<>>
               THEN msgs[i].images
               ELSE <<>>])

\* the content block display_uploaded_images builds for one file (lines 283-298)
ImageBlock(f) ==
    [type |-> "image",
     source |-> [type |-> "base64", media_type |-> "image/jpeg", data |-> f.file_id]]

\* the identifiers of a sequence of files (line 282)
FileIds(fs) == [i \in 1..Len(fs) |-> fs[i].file_id]

\* their content blocks
ImageBlocks(fs) == [i \in 1..Len(fs) |-> ImageBlock(fs[i])]

\* display_uploaded_images without the test of line 281
display_uploaded_images_unfiltered(files, mil) ==
    [raised |-> \E i \in 1..Len(files) : ~files[i].decodable,
     content_images |-> ImageBlocks(files),
     uploaded_file_ids |-> FileIds(files)]

\* display_uploaded_images: the files whose identifier is not in
\* message_images_list, in widget order; Image.open raises on a file that is
\* no image
display_uploaded_images(files, mil) ==
    LET fresh == SelectSeq(files, LAMBDA f : f.file_id \notin Range(mil))
    IN  [raised |-> \E i \in 1..Len(fresh) : ~fresh[i].decodable,
         content_images |-> ImageBlocks(fresh),
         uploaded_file_ids |-> FileIds(fresh)]

\* display_chat_messages / display_images: Image.open on every widget file
\* that a message of the log references
display_chat_messages_raises(msgs, files) ==
    \E i \in 1..Len(msgs) : \E j \in 1..Len(files) :
        /\ "images" \in DOMAIN msgs[i]
        /\ files[j].file_id \in Range(msgs[i].images)
        /\ ~files[j].decodable

\* langchain_messages_format returning a new list of the unwrapped entries only
langchain_messages_format_only_wrapped(lm) ==
    LET wrapped == SelectSeq(lm, LAMBDA e : /\ e.content.kind = "list"
                                            /\ "role" \in DOMAIN e.content.items[1])
    IN  [i \in 1..Len(wrapped) |->
            HumanMessage(ListContent(wrapped[i].content.items[1].content))]

\* langchain_messages_format: unwrap an entry whose content is a list whose
\* first element carries a role marker
langchain_messages_format(lm) ==
    [i \in 1..Len(lm) |->
        IF /\ lm[i].content.kind = "list"
           /\ "role" \in DOMAIN lm[i].content.items[1]
        THEN LET inner == ListContent(lm[i].content.items[1].content)
             IN  IF lm[i].type = "ai" THEN AIMessage(inner) ELSE HumanMessage(inner)
        ELSE lm[i]]

\* the window taken as the slice [-2k:] whatever k is: with k = 0 the slice
\* [-0:] is the whole log
Window_slice_only(lm, k) ==
    IF Len(lm) > 2 * k /\ k > 0
    THEN SubSeq(lm, Len(lm) - 2 * k + 1, Len(lm))
    ELSE lm

\* ConversationBufferWindowMemory(k): the last 2k entries of the memory log
Window(lm, k) ==
    IF k > 0 /\ Len(lm) > 2 * k
    THEN SubSeq(lm, Len(lm) - 2 * k + 1, Len(lm))
    ELSE IF k > 0 THEN lm ELSE <<>>

\* config.py: the models and their settings; a setting may be missing.
\* Temperatures are in tenths, top-p in hundredths.
config ==
    [claude |-> [temperature |-> 10, top_p |-> 100, top_k |-> 250,
                 max_tokens |-> 4096, memory_window |-> 10],
     mistral |-> [temperature |-> 5, system_prompt_disabled |-> TRUE,
                  image_upload_disabled |-> TRUE],
     llama |-> [system_prompt_disabled |-> FALSE,
                default_system_prompt |-> "Be brief.",
                image_upload_disabled |-> TRUE, memory_window |-> 1]]

\* dict.get(key, default)
get(d, key, default) == IF key \in DOMAIN d THEN d[key] ELSE default

\* the values the sidebar widgets of a model show until the user changes them
\* (render_sidebar, the value= arguments)
default_system_prompt(cfg) == get(cfg, "default_system_prompt", "")
default_sliders(cfg) ==
    [temperature |-> get(cfg, "temperature", 10),
     top_p |-> get(cfg, "top_p", 100),
     top_k |-> get(cfg, "top_k", 500),
     max_tokens |-> get(cfg, "max_tokens", 4096)]
default_memory_window(cfg) == get(cfg, "memory_window", 10)

\* render_sidebar sending an empty system prompt where the model takes none
render_sidebar_empty_system(cfg, sp, sl, mw) ==
    [model_kwargs |->
        [temperature |-> sl.temperature, top_p |-> sl.top_p,
         top_k |-> sl.top_k, max_tokens |-> sl.max_tokens,
         system |-> IF get(cfg, "system_prompt_disabled", FALSE) THEN "" ELSE sp],
     memory_window |-> mw]

\* render_sidebar, lines 128-138: the inference parameters made of the
\* widget values; the key "system" only when the model takes a system prompt
render_sidebar(cfg, sp, sl, mw) ==
    LET kwargs == [temperature |-> sl.temperature, top_p |-> sl.top_p,
                   top_k |-> sl.top_k, max_tokens |-> sl.max_tokens]
    IN  [model_kwargs |-> IF ~get(cfg, "system_prompt_disabled", FALSE)
                          THEN ("system" :> sp) @@ kwargs
                          ELSE kwargs,
         memory_window |-> mw]

\* init_conversationchain, lines 158-159: the log of a session that has none
init_messages == << INIT_MESSAGE >>

\* new_chat with the log emptied instead of set to the greeting
new_chat_empty_log(k) ==
    [messages |-> <<>>,
     langchain_messages |-> <<>>,
     file_uploader_key |-> k]

\* new_chat without line 180
new_chat_keeps_memory(k) ==
    [messages |-> << INIT_MESSAGE >>,
     langchain_messages |-> langchain_messages,
     file_uploader_key |-> k]

\* new_chat: the session fields it assigns; k is the value random.randint returns
new_chat(k) ==
    [messages |-> << INIT_MESSAGE >>,
     langchain_messages |-> <<>>,
     file_uploader_key |-> k]

\* st.file_uploader(key=...): a widget with another key is a new, empty widget
file_uploader(files, old_key, new_key) ==
    IF new_key = old_key THEN files ELSE <<>>

\* main, lines 340-384, one run of the script up to the call of
\* generate_response: the log and memory it leaves and how it goes on.
\*   "invoke"  the run calls generate_response (line 386)
\*   "done"    the run ends, the last message being the assistant's
\*   otherwise the exception that ends the run
main(msgs, lm, files, prompt) ==
    LET mil == message_images_list(msgs)
        shown == display_uploaded_images(files, mil)
        with_images == files # <<>> /\ Len(mil) < Len(files)
        fp == IF with_images
              THEN format_prompt(prompt) \o shown.content_images
              ELSE format_prompt(prompt)
        user == IF with_images
                THEN [role |-> "user", content |-> fp,
                      images |-> shown.uploaded_file_ids]
                ELSE [role |-> "user", content |-> fp]
        msgs1 == IF prompt # None THEN Append(msgs, user) ELSE msgs
        stop(e) == [messages |-> msgs, langchain_messages |-> lm,
                    formatted_prompt |-> <<>>, next |-> e]
    IN  IF display_chat_messages_raises(msgs, files)
        THEN stop("UnidentifiedImageError")
        ELSE IF with_images /\ shown.raised
        THEN stop("UnidentifiedImageError")
        ELSE IF msgs1 = <<>>
        THEN [messages |-> msgs1,
              langchain_messages |-> langchain_messages_format(lm),
              formatted_prompt |-> <<>>, next |-> "IndexError"]
        ELSE IF Last(msgs1).role = "assistant"
        THEN [messages |-> msgs1,
              langchain_messages |-> langchain_messages_format(lm),
              formatted_prompt |-> <<>>, next |-> "done"]
        ELSE IF prompt = None
        THEN [messages |-> msgs1,
              langchain_messages |-> langchain_messages_format(lm),
              formatted_prompt |-> <<>>, next |-> "NameError"]
        ELSE [messages |-> msgs1,
              langchain_messages |-> langchain_messages_format(lm),
              formatted_prompt |-> fp, next |-> "invoke"]

\* generate_response, line 387: the input handed to the chain
chain_input(fp) == << [role |-> "user", content |-> fp] >>

\* the conversation context of the invocation in progress (CLAUDE_PROMPT:
\* the window of the memory log, then the input)
conversation_context ==
    [history |-> Window(langchain_messages, memory_window),
     input |-> chain_input(formatted_prompt)]

----------------------------------------------------------------------------
(* The session *)

\* the first entry of the "Model" selectbox
FirstModel == "claude"

\* the state after the first run of main() in a new session: lines 158-159
\* and 326-327, the widgets at their defaults, no prompt submitted
Init ==
    /\ messages = init_messages
    /\ langchain_messages = <<>>
    /\ file_uploader_key = 0
    /\ uploaded_files = <<>>
    /\ model_name = FirstModel
    /\ system_prompt = default_system_prompt(config[FirstModel])
    /\ sliders = default_sliders(config[FirstModel])
    /\ memory_window = default_memory_window(config[FirstModel])
    /\ model_kwargs = render_sidebar(config[FirstModel], system_prompt, sliders,
                                     memory_window).model_kwargs
    /\ pc = "idle"
    /\ formatted_prompt = <<>>
    /\ text = <<>>
    /\ container = <<>>
    /\ renders = 0
    /\ arrived = <<>>
    /\ rerun_requested = FALSE
    /\ lastOp = "start"
    /\ invocations = 0
    /\ responses = 0

\* one run of main() on the session fields msgs, lm, the widget files and the
\* sidebar widgets as the event left them
Run(msgs, lm, files, prompt) ==
    LET r == main(msgs, lm, files, prompt)
    IN  /\ model_kwargs' = render_sidebar(config[model_name'], system_prompt',
                                          sliders', memory_window').model_kwargs
        /\ messages' = r.messages
        /\ langchain_messages' = r.langchain_messages
        /\ formatted_prompt' = r.formatted_prompt
        /\ text' = <<>>
        /\ container' = <<>>
        /\ renders' = 0
        /\ arrived' = <<>>
        /\ pc' = IF r.next = "invoke" THEN "invoking" ELSE "idle"

Quiet == pc = "idle" /\ ~rerun_requested

ResetOps == {"new_chat", "new_chat_deferred"}

SidebarUntouched == UNCHANGED <<model_name, system_prompt, sliders, memory_window>>

\* st.chat_input returns the submitted prompt; the script runs (the model
\* takes prompts while the log is shorter than limit)
SubmitPrompt(limit) ==
    /\ Quiet
    /\ Len(messages) < limit
    /\ SidebarUntouched
    /\ \E prompt \in Prompts :
         /\ Run(messages, langchain_messages, uploaded_files, prompt)
         /\ invocations' = IF pc' = "invoking" THEN invocations + 1 ELSE invocations
    /\ lastOp' = "submit"
    /\ UNCHANGED <<file_uploader_key, uploaded_files, rerun_requested, responses>>

\* identifiers held by the widget or recorded in the log
LiveIds ==
    {uploaded_files[i].file_id : i \in 1..Len(uploaded_files)}
        \cup Range(message_images_list(messages))

\* the user adds a file to the upload widget (an image if ok); the script runs
UploadFile(oks) ==
    /\ Quiet
    /\ ~get(config[model_name], "image_upload_disabled", FALSE)
    /\ SidebarUntouched
    /\ \E id \in 1..MaxFiles : \E ok \in oks :
         /\ id \notin LiveIds
         /\ \A other \in 1..MaxFiles : other \notin LiveIds => id <= other
         /\ uploaded_files' = Append(uploaded_files, UploadedFile(id, ok))
         /\ Run(messages, langchain_messages, uploaded_files', None)
    /\ lastOp' = "event"
    /\ UNCHANGED <<file_uploader_key, rerun_requested, invocations, responses>>

\* the user removes a file from the upload widget; the script runs
RemoveFile ==
    /\ Quiet
    /\ SidebarUntouched
    /\ \E i \in 1..Len(uploaded_files) :
         /\ uploaded_files' = SubSeq(uploaded_files, 1, i - 1)
                                \o SubSeq(uploaded_files, i + 1, Len(uploaded_files))
         /\ Run(messages, langchain_messages, uploaded_files', None)
    /\ lastOp' = "event"
    /\ UNCHANGED <<file_uploader_key, rerun_requested, invocations, responses>>

\* a reset that also draws a new widget_key: the sidebar widgets are new
\* widgets at their defaults
Reset_new_widget_key(keys, op) ==
    \E k \in keys :
        LET s == new_chat(k)
        IN  /\ model_name' = FirstModel
            /\ system_prompt' = default_system_prompt(config[FirstModel])
            /\ sliders' = default_sliders(config[FirstModel])
            /\ memory_window' = default_memory_window(config[FirstModel])
            /\ file_uploader_key' = s.file_uploader_key
            /\ uploaded_files' = file_uploader(uploaded_files, file_uploader_key,
                                               s.file_uploader_key)
            /\ Run(s.messages, s.langchain_messages, uploaded_files', None)
            /\ rerun_requested' = FALSE
            /\ invocations' = 0
            /\ responses' = 0
            /\ lastOp' = op

\* the on_click callback new_chat, then the run of the script it precedes
Reset(keys, op) ==
    \E k \in keys :
        LET s == new_chat(k)
        IN  /\ SidebarUntouched
            /\ file_uploader_key' = s.file_uploader_key
            /\ uploaded_files' = file_uploader(uploaded_files, file_uploader_key,
                                               s.file_uploader_key)
            /\ Run(s.messages, s.langchain_messages, uploaded_files', None)
            /\ rerun_requested' = FALSE
            /\ invocations' = 0
            /\ responses' = 0
            /\ lastOp' = op

\* "New Chat" clicked while no run is in progress
NewChat(keys) ==
    /\ Quiet
    /\ Reset(keys, "new_chat")

\* "New Chat" clicked while the run is blocked in generate_response: the
\* rerun is requested and the script goes on to its next Streamlit command
ClickNewChat ==
    /\ pc = "invoking"
    /\ ~rerun_requested
    /\ rerun_requested' = TRUE
    /\ lastOp' = "event"
    /\ UNCHANGED <<messages, langchain_messages, file_uploader_key, uploaded_files,
                   model_name, system_prompt, sliders, memory_window, model_kwargs,
                   pc, formatted_prompt, text, container, renders, arrived,
                   invocations, responses>>

\* on_llm_new_token assigning the token to the buffer (= for +=)
on_llm_new_token_assigns(tokens, limit) ==
    /\ pc = "invoking"
    /\ Len(arrived) < limit
    /\ \E token \in tokens :
         /\ arrived' = Append(arrived, token)
         /\ text' = << token >>
    /\ container' = text'
    /\ renders' = renders + 1
    /\ lastOp' = "event"
    /\ UNCHANGED <<messages, langchain_messages, file_uploader_key, uploaded_files,
                   model_name, system_prompt, sliders, memory_window, model_kwargs,
                   pc, formatted_prompt, rerun_requested, invocations, responses>>

\* StreamHandler.on_llm_new_token: the token joins the buffer and the buffer
\* is shown; container.markdown is a Streamlit command, where a requested
\* rerun stops the script (the backend streams tokens of `tokens`, at most
\* limit of them)
on_llm_new_token(tokens, limit) ==
    /\ pc = "invoking"
    /\ Len(text) < limit
    /\ \E token \in tokens :
         /\ arrived' = Append(arrived, token)
         /\ text' = Append(text, token)
    /\ container' = text'
    /\ renders' = renders + 1
    /\ pc' = IF rerun_requested THEN "idle" ELSE "invoking"
    /\ lastOp' = "event"
    /\ UNCHANGED <<messages, langchain_messages, file_uploader_key, uploaded_files,
                   model_name, system_prompt, sliders, memory_window, model_kwargs,
                   formatted_prompt, rerun_requested, invocations, responses>>

\* the response stored over the last message instead of after it
InvokeReturn_overwrites_last ==
    /\ pc = "invoking"
    /\ LET ctx == conversation_context
           response == [response |-> text]
       IN  /\ langchain_messages' = langchain_messages
                  \o << HumanMessage(ListContent(ctx.input)),
                        AIMessage(StrContent(text)) >>
           /\ messages' = [messages EXCEPT
                  ![Len(messages)] = [role |-> "assistant", content |-> response]]
    /\ responses' = responses + 1
    /\ pc' = "idle"
    /\ formatted_prompt' = <<>>
    /\ text' = <<>>
    /\ container' = <<>>
    /\ renders' = 0
    /\ arrived' = <<>>
    /\ lastOp' = "event"
    /\ UNCHANGED <<file_uploader_key, uploaded_files, model_name, system_prompt,
                   sliders, memory_window, model_kwargs, rerun_requested, invocations>>

\* conversation.invoke returns: the chain saves the exchange to its memory and
\* main appends the assistant message (lines 389-390); the run ends.  Of the
\* dict the chain returns only the entry "response" is kept (the entries
\* "input" and "history" repeat the context)
InvokeReturn ==
    /\ pc = "invoking"
    /\ LET ctx == conversation_context
           response == [response |-> text]
       IN  /\ langchain_messages' = langchain_messages
                  \o << HumanMessage(ListContent(ctx.input)),
                        AIMessage(StrContent(text)) >>
           /\ messages' = Append(messages, [role |-> "assistant", content |-> response])
    /\ responses' = responses + 1
    /\ pc' = "idle"
    /\ formatted_prompt' = <<>>
    /\ text' = <<>>
    /\ container' = <<>>
    /\ renders' = 0
    /\ arrived' = <<>>
    /\ lastOp' = "event"
    /\ UNCHANGED <<file_uploader_key, uploaded_files, model_name, system_prompt,
                   sliders, memory_window, model_kwargs, rerun_requested, invocations>>

\* conversation.invoke raises (the backend call fails): nothing catches it,
\* the run ends at line 386
InvokeError ==
    /\ pc = "invoking"
    /\ pc' = "idle"
    /\ formatted_prompt' = <<>>
    /\ text' = <<>>
    /\ container' = <<>>
    /\ renders' = 0
    /\ arrived' = <<>>
    /\ lastOp' = "event"
    /\ UNCHANGED <<messages, langchain_messages, file_uploader_key, uploaded_files,
                   model_name, system_prompt, sliders, memory_window, model_kwargs,
                   rerun_requested, invocations, responses>>

\* the callback run at once, the script of the run in progress going on
DeliverNewChat_during_run(keys) ==
    /\ pc = "invoking"
    /\ rerun_requested
    /\ \E k \in keys :
         LET s == new_chat(k)
         IN  /\ messages' = s.messages
             /\ langchain_messages' = s.langchain_messages
             /\ file_uploader_key' = s.file_uploader_key
             /\ uploaded_files' = file_uploader(uploaded_files, file_uploader_key,
                                                s.file_uploader_key)
    /\ rerun_requested' = FALSE
    /\ invocations' = 0
    /\ responses' = 0
    /\ lastOp' = "new_chat_deferred"
    /\ UNCHANGED <<model_name, system_prompt, sliders, memory_window, model_kwargs,
                   pc, formatted_prompt, text, container, renders, arrived>>

\* the rerun requested by ClickNewChat starts once the run in progress is over
DeliverNewChat(keys) ==
    /\ pc = "idle"
    /\ rerun_requested
    /\ Reset(keys, "new_chat_deferred")

\* the user picks a model in the "Model" selectbox; the script runs.  The other
\* sidebar widgets keep their keys: they keep their values, or, where the
\* toolkit takes a changed default for a new widget, show the new defaults
SelectModel ==
    /\ Quiet
    /\ \E m \in DOMAIN config :
         /\ m # model_name
         /\ model_name' = m
         /\ \/ UNCHANGED <<system_prompt, sliders, memory_window>>
            \/ /\ system_prompt' = default_system_prompt(config[m])
               /\ sliders' = default_sliders(config[m])
               /\ memory_window' = default_memory_window(config[m])
    /\ Run(messages, langchain_messages, uploaded_files, None)
    /\ lastOp' = "event"
    /\ UNCHANGED <<file_uploader_key, uploaded_files, rerun_requested,
                   invocations, responses>>

\* the user edits the "System Prompt" text area (enabled only for a model
\* that takes a system prompt); the script runs
EditSystemPrompt ==
    /\ Quiet
    /\ ~get(config[model_name], "system_prompt_disabled", FALSE)
    /\ \E sp \in SystemPrompts :
         /\ sp # system_prompt
         /\ system_prompt' = sp
    /\ UNCHANGED <<model_name, sliders, memory_window>>
    /\ Run(messages, langchain_messages, uploaded_files, None)
    /\ lastOp' = "event"
    /\ UNCHANGED <<file_uploader_key, uploaded_files, rerun_requested,
                   invocations, responses>>

\* the user moves one of the Temperature, Top-P, Top-K, Max Token sliders;
\* the script runs
MoveSlider ==
    /\ Quiet
    /\ \E name \in DOMAIN SliderValues : \E v \in SliderValues[name] :
         /\ v # sliders[name]
         /\ sliders' = [sliders EXCEPT ![name] = v]
    /\ UNCHANGED <<model_name, system_prompt, memory_window>>
    /\ Run(messages, langchain_messages, uploaded_files, None)
    /\ lastOp' = "event"
    /\ UNCHANGED <<file_uploader_key, uploaded_files, rerun_requested,
                   invocations, responses>>

\* the user moves the "Memory Window" slider; the script runs
MoveMemoryWindow ==
    /\ Quiet
    /\ \E k \in MemoryWindows :
         /\ k # memory_window
         /\ memory_window' = k
    /\ UNCHANGED <<model_name, system_prompt, sliders>>
    /\ Run(messages, langchain_messages, uploaded_files, None)
    /\ lastOp' = "event"
    /\ UNCHANGED <<file_uploader_key, uploaded_files, rerun_requested,
                   invocations, responses>>

\* the chat with the sidebar left at the defaults of the first model
Next ==
    \/ SubmitPrompt(MaxMessages)
    \/ UploadFile({TRUE})
    \/ RemoveFile
    \/ NewChat(SomeKeys)
    \/ ClickNewChat
    \/ on_llm_new_token(Tokens, MaxStream)
    \/ InvokeReturn
    \/ InvokeError
    \/ DeliverNewChat(SomeKeys)

Spec == Init /\ [][Next]_vars

\* the upload widget and "New Chat", the key drawn from all of 1..RandintMax
NextKeys ==
    \/ UploadFile({TRUE})
    \/ RemoveFile
    \/ NewChat(1..RandintMax)

SpecKeys == Init /\ [][NextKeys]_vars

\* the sidebar: every model, every widget value
NextSidebar ==
    \/ SelectModel
    \/ EditSystemPrompt
    \/ MoveSlider
    \/ MoveMemoryWindow

SpecSidebar == Init /\ [][NextSidebar]_vars

\* uploads that may be no images, prompts and the invocations they start
NextDecode ==
    \/ SubmitPrompt(MaxMessages)
    \/ UploadFile(BOOLEAN)
    \/ RemoveFile
    \/ on_llm_new_token(Tokens, MaxStream)
    \/ InvokeReturn
    \/ InvokeError

SpecDecode == Init /\ [][NextDecode]_vars

\* the sidebar widgets and the "New Chat" button
NextSidebarReset ==
    \/ SelectModel
    \/ EditSystemPrompt
    \/ MoveSlider
    \/ MoveMemoryWindow
    \/ NewChat(SomeKeys)

SpecSidebarReset == Init /\ [][NextSidebarReset]_vars

\* turns without files whose responses arrive in several tokens
NextStream ==
    \/ SubmitPrompt(MaxStreamMessages)
    \/ on_llm_new_token(StreamTokens, MaxBuffer)
    \/ InvokeReturn
    \/ InvokeError

SpecStream == Init /\ [][NextStream]_vars

\* turns without files under every value of the Memory Window slider
NextWindow ==
    \/ SubmitPrompt(MaxWindowMessages)
    \/ MoveMemoryWindow
    \/ on_llm_new_token(Tokens, MaxStream)
    \/ InvokeReturn
    \/ InvokeError

SpecWindow == Init /\ [][NextWindow]_vars

\* the prompts main builds (lines 360-366, 373): the formatted text, then the
\* image blocks of the attached files
FormattedPrompts ==
    {format_prompt(p) \o ImageBlocks(fs) :
        p \in Prompts, fs \in {<<>>, << UploadedFile(1, TRUE) >>}}

\* the buffers a run can return as the response
ResponseTexts == UNION {[1..n -> Tokens] : n \in 0..MaxStream}

\* the entries the session puts in the memory log: the chain saves the input
\* of line 387 as a human entry and the response as an ai entry;
\* langchain_messages_format leaves human entries holding the prompt itself
MemoryEntries ==
    {HumanMessage(ListContent(chain_input(fp))) : fp \in FormattedPrompts}
        \cup {HumanMessage(ListContent(fp)) : fp \in FormattedPrompts}
        \cup {AIMessage(StrContent(t)) : t \in ResponseTexts}

MemoryLogs == UNION {[1..n -> MemoryEntries] : n \in 0..MaxLog}

\* a session holding any memory log
InitFormat ==
    /\ messages = init_messages
    /\ langchain_messages \in MemoryLogs
    /\ file_uploader_key = 0
    /\ uploaded_files = <<>>
    /\ model_name = FirstModel
    /\ system_prompt = default_system_prompt(config[FirstModel])
    /\ sliders = default_sliders(config[FirstModel])
    /\ memory_window = default_memory_window(config[FirstModel])
    /\ model_kwargs = render_sidebar(config[FirstModel], system_prompt, sliders,
                                     memory_window).model_kwargs
    /\ pc = "idle"
    /\ formatted_prompt = <<>>
    /\ text = <<>>
    /\ container = <<>>
    /\ renders = 0
    /\ arrived = <<>>
    /\ rerun_requested = FALSE
    /\ lastOp = "start"
    /\ invocations = 0
    /\ responses = 0

\* main, lines 379-381: the memory log is replaced by its normalisation
FormatMemory ==
    /\ langchain_messages' = langchain_messages_format(langchain_messages)
    /\ lastOp' = "format"
    /\ UNCHANGED <<messages, file_uploader_key, uploaded_files, model_name,
                   system_prompt, sliders, memory_window, model_kwargs, pc,
                   formatted_prompt, text, container, renders, arrived, rerun_requested,
                   invocations, responses>>

SpecFormat == InitFormat /\ [][FormatMemory]_vars

----------------------------------------------------------------------------
(* Properties *)

ImagesOf(m) == IF "images" \in DOMAIN m THEN m.images ELSE <<>>

\* C1: the log is never empty and its first message is the fixed greeting, in
\* every state of the session; the log is exactly the greeting after the
\* first run and right after every reset.
C1_GreetingFirst ==
    /\ messages = << INIT_MESSAGE >>
    /\ [](Len(messages) >= 1 /\ messages[1] = INIT_MESSAGE)
    /\ [][lastOp' \in ResetOps => messages' = << INIT_MESSAGE >>]_vars

\* a session that was reset and then took an upload and two prompts
C1_Witness ==
    /\ file_uploader_key # 0
    /\ uploaded_files # <<>>
    /\ Len(messages) > MaxMessages
    /\ messages[1] = INIT_MESSAGE

\* the widget files whose identifier no user message of the log records
Unconsumed ==
    SelectSeq(uploaded_files,
              LAMBDA f : f.file_id \notin Range(message_images_list(messages)))

\* C2: a prompt submitted with the upload widget empty and the last message
\* the assistant's appends one user message holding the formatted prompt and
\* starts one invocation; when the run ends (no reset requested) it has
\* appended one assistant message after it, two messages in all.
C2_TextTurnGrowsByTwo ==
    [][/\ (/\ pc = "idle"
           /\ pc' = "invoking"
           /\ uploaded_files = <<>>
           /\ Last(messages).role = "assistant")
          => /\ \E p \in Prompts :
                  messages' = Append(messages, [role |-> "user",
                                                content |-> format_prompt(p)])
             /\ invocations' = invocations + 1
       /\ (/\ pc = "invoking"
           /\ pc' = "idle"
           /\ ~rerun_requested
           /\ uploaded_files = <<>>
           /\ messages[Len(messages) - 1].role = "assistant")
          => /\ Len(messages') = Len(messages) + 1
             /\ SubSeq(messages', 1, Len(messages)) = messages
             /\ Last(messages').role = "assistant"
             /\ invocations' = invocations]_vars

\* C3: when a reset that was requested during an invocation takes effect the
\* log is exactly the greeting, and no response is appended that does not
\* belong to an invocation started since the last reset.
C3_ResetDiscardsInFlight ==
    /\ [][lastOp' = "new_chat_deferred"
            => messages' = << INIT_MESSAGE >> /\ responses' = 0]_vars
    /\ [](responses <= invocations)
    /\ [](Len(messages) = 1 + invocations + responses)

\* a reset requested during an invocation has just taken effect
C3_Witness ==
    /\ lastOp = "new_chat_deferred"
    /\ messages = << INIT_MESSAGE >>
    /\ pc = "idle"

\* C4: the end of an invocation, failed or not, appends an assistant message
\* holding the streamed buffer and leaves the assistant's message last.
C4_FailureAppendsBuffer ==
    [][(pc = "invoking" /\ pc' = "idle" /\ ~rerun_requested)
          => /\ Len(messages') = Len(messages) + 1
             /\ SubSeq(messages', 1, Len(messages)) = messages
             /\ Last(messages').role = "assistant"
             /\ Last(messages').content = [response |-> text]]_vars

\* C5: the user message a submitted prompt appends records exactly the
\* unconsumed widget files, in upload order.
C5_PromptAttachesUnconsumed ==
    [][(pc = "idle" /\ pc' = "invoking")
          => ImagesOf(Last(messages')) = FileIds(Unconsumed)]_vars

\* C6: a run without a prompt, unconsumed files in the widget, appends no
\* message, starts no invocation and consumes nothing; the files staged this
\* way are recorded by the user message of the next submitted prompt.
C6_StagedAttachmentsKept ==
    [][/\ (/\ pc = "idle"
           /\ pc' = "idle"
           /\ lastOp' \notin ResetOps
           /\ Unconsumed' # <<>>)
          => /\ messages' = messages
             /\ invocations' = invocations
       /\ (/\ pc = "idle"
           /\ pc' = "invoking"
           /\ Unconsumed # <<>>)
          => /\ Len(messages') = Len(messages) + 1
             /\ Range(FileIds(Unconsumed)) \subseteq Range(ImagesOf(Last(messages')))]_vars

\* C7: no attachment identifier is recorded twice in the log, neither by two
\* messages nor twice by one.
C7_AttachmentInOneMessage ==
    \A i, j \in 1..Len(messages) :
        \A a \in 1..Len(ImagesOf(messages[i])) :
            \A b \in 1..Len(ImagesOf(messages[j])) :
                ImagesOf(messages[i])[a] = ImagesOf(messages[j])[b]
                    => (i = j /\ a = b)

\* two user messages with attachments, the earlier one's file still in the widget
C7_Witness ==
    \E i, j \in 1..Len(messages) :
        /\ i < j
        /\ ImagesOf(messages[i]) # <<>>
        /\ ImagesOf(messages[j]) # <<>>
        /\ \E n \in 1..Len(uploaded_files) :
              uploaded_files[n].file_id \in Range(ImagesOf(messages[i]))

\* C8: every reset gives the upload widget a key other than the one it had
\* and leaves it without files.
C8_ResetChangesKey ==
    [][lastOp' \in ResetOps
          => /\ file_uploader_key' # file_uploader_key
             /\ uploaded_files' = <<>>]_vars

\* C9: a reset leaves the memory log empty, and the first invocation after it
\* is handed an empty history and, as input, the prompt just appended.
C9_ResetClearsMemory ==
    /\ [][lastOp' \in ResetOps => langchain_messages' = <<>>]_vars
    /\ [](pc = "invoking" /\ invocations = 1
            => /\ conversation_context.history = <<>>
               /\ conversation_context.input = chain_input(Last(messages).content))

\* the first invocation of a session that was reset
C9_Witness ==
    /\ file_uploader_key # 0
    /\ pc = "invoking"
    /\ invocations = 1

\* C10: the inference parameters hold the key "system" exactly when the
\* selected model does not disable the system prompt, whatever the text area
\* holds; its value is then the text area's.
C10_NoSystemKeyWhenDisabled ==
    /\ ("system" \in DOMAIN model_kwargs)
          <=> ~get(config[model_name], "system_prompt_disabled", FALSE)
    /\ "system" \in DOMAIN model_kwargs => model_kwargs.system = system_prompt

\* a model without system prompt while the text area holds a text the user typed
C10_Witness ==
    /\ get(config[model_name], "system_prompt_disabled", FALSE)
    /\ system_prompt = "Answer in French."
    /\ "system" \notin DOMAIN model_kwargs

\* C11: a prompt submitted while one of the unconsumed widget files cannot be
\* decoded still appends the user message and starts the invocation; the
\* message records and carries exactly the unconsumed files that decode, in
\* widget order, and the identifier of the undecodable file is not recorded.
C11_UndecodableFileSkipped ==
    [][(/\ lastOp' = "submit"
        /\ \E i \in 1..Len(Unconsumed) : ~Unconsumed[i].decodable)
       => LET good == SelectSeq(Unconsumed, LAMBDA f : f.decodable)
          IN  /\ pc' = "invoking"
              /\ messages' = Append(messages,
                     [role |-> "user",
                      content |-> formatted_prompt' ,
                      images |-> FileIds(good)])
              /\ \E p \in Prompts :
                     formatted_prompt' = format_prompt(p) \o ImageBlocks(good)]_vars

\* an entry langchain_messages_format rewrites: its content is a list whose
\* first element carries a role marker
RoleWrapped(e) ==
    e.content.kind = "list" /\ "role" \in DOMAIN e.content.items[1]

C13_AppendOnlyExceptReset ==
    [][\/ messages' = messages
       \/ /\ Len(messages') > Len(messages)
          /\ SubSeq(messages', 1, Len(messages)) = messages
       \/ /\ lastOp' \in ResetOps
          /\ messages' = << INIT_MESSAGE >>]_vars

\* a log that was reset and then grew by a prompt with an image and its response
C13_Witness ==
    /\ file_uploader_key # 0
    /\ responses >= 1
    /\ Len(messages) = 3
    /\ ImagesOf(messages[2]) # <<>>
    /\ messages[3].role = "assistant"

DefaultParameters(m) ==
    render_sidebar(config[m], default_system_prompt(config[m]),
                   default_sliders(config[m]), default_memory_window(config[m]))

\* C15 as stated: the run that follows a reset produces the parameters of the
\* selected model's defaults, whatever the widgets held before.
C15_ResetRestoresDefaults ==
    [][lastOp' \in ResetOps
       => /\ model_kwargs' = DefaultParameters(model_name').model_kwargs
          /\ memory_window' = DefaultParameters(model_name').memory_window]_vars

\* C15, amended: a reset leaves the selected model and the sidebar widgets as
\* they are, and the run that follows it produces the parameters of the
\* widget values, the same as the run before the reset.
C15_ResetKeepsParameters ==
    [][lastOp' \in ResetOps
       => /\ UNCHANGED <<model_name, system_prompt, sliders, memory_window>>
          /\ model_kwargs' = model_kwargs
          /\ model_kwargs' = render_sidebar(config[model_name], system_prompt,
                                            sliders, memory_window).model_kwargs]_vars

\* a session just reset whose widgets all differ from the model's defaults
C15_Witness ==
    /\ lastOp \in ResetOps
    /\ system_prompt # default_system_prompt(config[model_name])
    /\ \A name \in DOMAIN sliders :
          sliders[name] # default_sliders(config[model_name])[name]
    /\ memory_window # default_memory_window(config[model_name])
    /\ model_kwargs # DefaultParameters(model_name).model_kwargs

\* C16: the buffer of a run is empty when the invocation starts; at every
\* moment it is the tokens that have arrived in this invocation, in arrival
\* order, the placeholder shows it, and it was rendered once per token; so no
\* token of an earlier invocation is in it.
C16_BufferIsTokensSoFar ==
    /\ [](/\ text = arrived
          /\ container = text
          /\ renders = Len(arrived))
    /\ [][pc = "idle" /\ pc' = "invoking"
           => text' = <<>> /\ arrived' = <<>> /\ renders' = 0]_vars
    /\ [][arrived' # arrived /\ arrived' # <<>>
           => /\ Len(arrived') = Len(arrived) + 1
              /\ text' = Append(text, arrived'[Len(arrived')])
              /\ renders' = renders + 1]_vars

\* the second invocation of a session, its buffer full with tokens that
\* differ from the first response
C16_Witness ==
    /\ pc = "invoking"
    /\ responses = 1
    /\ Len(arrived) = MaxBuffer
    /\ arrived[1] # arrived[2]
    /\ messages[3].content.response # <<>>
    /\ messages[3].content.response[1] # arrived[1]

\* C17: whenever a run has ended (and no reset is pending) the last message
\* is the assistant's and, after the greeting, the roles alternate user,
\* assistant; a run invokes the model at most once, and only if it appended a
\* user message itself.
C17_RenderEndsIdle ==
    /\ [](Quiet => /\ Last(messages).role = "assistant"
                   /\ \A i \in 2..Len(messages) :
                         messages[i].role = IF i % 2 = 0 THEN "user" ELSE "assistant")
    /\ [][invocations' > invocations
           => /\ invocations' = invocations + 1
              /\ lastOp' = "submit"
              /\ Len(messages') = Len(messages) + 1
              /\ SubSeq(messages', 1, Len(messages)) = messages
              /\ Last(messages').role = "user"]_vars
====
